---- MODULE Spec2Model ----
(***************************************************************************)
(* ResyncModal.tsx: the resync controller of the dashboard.                *)
(*                                                                         *)
(* The component is a React function component.  Its state are the four    *)
(* useState cells; its props (isOpen, url, appMethod, onClose) belong to   *)
(* the host.  Every event handler runs to completion and React re-renders  *)
(* before the next event is delivered, so the rendered view (the values    *)
(* and the disabled/readOnly flags the handlers are bound with) is kept in *)
(* the variable view and recomputed at the end of every action.  onSync is *)
(* an async function: the part before the await is one action (OnSync),    *)
(* the continuation after the await is another (Settle), and the requests  *)
(* between the two are the sequence inflight.                              *)
(*                                                                         *)
(* toast.success and the host's onClose are taken to return normally.      *)
(***************************************************************************)
EXTENDS Integers, Sequences, FiniteSets, TLC

\* ---------------------------------------------------------------- bounds
MaxRequests == 2        \* requests dispatched in one behaviour
MaxCloses == 2          \* user-initiated close signals in one behaviour
MaxInert == 1           \* clicks on the disabled confirm button

\* ---------------------------------------------------------------- values
Absent == "<absent>"    \* undefined / null / an optional field left out

AppExternalID == "my-app"
EnvID == "env-1"

\* the values the host passes as the url prop
URLs == {"https://a.com/api/inngest", "https://c.com/api/inngest"}
\* what the user can leave in the text input
Texts == URLs \cup {"https://b.com/x", ""}

Connect == "connect"
Methods == {Connect, "serve", Absent}

\* CodedError { code: string, data?: unknown, message?: string }
CodedError(c, d, m) == [code |-> c, data |-> d, message |-> m]
\* the value of the failure cell while no failure is stored
Undefined == CodedError(Absent, Absent, Absent)
AppErrors ==
    { CodedError("invalid_url", Absent, "bad host"),
      CodedError("unknown", "details", "sdk unreachable") }

\* res.data of the mutation: absent, or { resyncApp: { app, error } }
NoData == [present |-> FALSE, app |-> Absent, error |-> Undefined]
Payloads ==
    { [present |-> TRUE, app |-> "1", error |-> Undefined] } \cup
    { [present |-> TRUE, app |-> Absent, error |-> e] : e \in AppErrors }
\* what awaiting resyncApp(...) yields: the promise rejects, or it resolves
\* to an OperationResult whose error and data fields are set independently
Responses ==
    { [rejects |-> TRUE, error |-> FALSE, data |-> NoData] } \cup
    [rejects : {FALSE}, error : BOOLEAN, data : {NoData} \cup Payloads]

VARIABLES
    url,              \* prop url (the application's URL)
    appMethod,        \* prop appMethod
    isOpen,           \* prop isOpen
    overrideValue,    \* useState(url)
    isURLOverridden,  \* useState(false)
    failure,          \* useState<CodedError>()
    isSyncing,        \* useState(false)
    view,             \* what the last render produced
    inflight,         \* requests handed to resyncApp and not yet settled
    dispatched,       \* number of calls of resyncApp
    toasts,           \* number of calls of toast.success
    closeSignals,     \* number of calls of onClose
    inertClicks,      \* clicks that met a disabled confirm button
    rejections,       \* promises returned by onSync that rejected
    edited            \* whether the Input's onChange has run since the mount

vars == <<url, appMethod, isOpen, overrideValue, isURLOverridden, failure,
          isSyncing, view, inflight, dispatched, toasts, closeSignals,
          inertClicks, rejections, edited>>

\* ---------------------------------------------------------------- render
\* the override buffer shown whether or not overriding is enabled
EffectiveURLSticky(u, ov, o) == ov

\* lines 58-60: the url the render works with
EffectiveURL(u, ov, o) == IF o THEN ov ELSE u

isConnect(m) == m = Connect

\* the failure rendered without the isSyncing gate
FailureShownUngated(f, s) == f # Undefined

\* line 187: {failure && !isSyncing && <SyncFailure/>}
FailureShown(f, s) == f # Undefined /\ ~s

\* the confirm button without the isSyncing lock
SyncDisabledNoLock(s, o, m) == ~o /\ isConnect(m)

\* the confirm button without the migration gate
SyncDisabledNoGate(s, o, m) == s

\* line 202: disabled of the confirm button
SyncDisabled(s, o, m) == s \/ (~o /\ isConnect(m))

\* the render with the switch left enabled while syncing
RenderSwitchFree(u, m, ov, o, f, s) ==
    [ url             |-> EffectiveURL(u, ov, o),
      readOnly        |-> ~o,
      switchDisabled  |-> FALSE,
      failureShown    |-> FailureShown(f, s),
      cancelDisabled  |-> s,
      confirmDisabled |-> SyncDisabled(s, o, m) ]

\* lines 106-208: what the render binds the handlers and the view with
Render(u, m, ov, o, f, s) ==
    [ url             |-> EffectiveURL(u, ov, o),
      readOnly        |-> ~o,
      switchDisabled  |-> s,
      failureShown    |-> FailureShown(f, s),
      cancelDisabled  |-> s,
      confirmDisabled |-> SyncDisabled(s, o, m) ]

Rerender ==
    view' = Render(url', appMethod', overrideValue', isURLOverridden',
                   failure', isSyncing')

\* ---------------------------------------------------------------- init
Init ==
    /\ url \in URLs
    /\ appMethod \in Methods
    /\ isOpen = TRUE
    /\ overrideValue = url
    /\ isURLOverridden = FALSE
    /\ failure = Undefined
    /\ isSyncing = FALSE
    /\ view = Render(url, appMethod, overrideValue, isURLOverridden,
                     failure, isSyncing)
    /\ inflight = <<>>
    /\ dispatched = 0
    /\ toasts = 0
    /\ closeSignals = 0
    /\ inertClicks = 0
    /\ rejections = 0
    /\ edited = FALSE

\* ---------------------------------------------------------------- onSync
\* the request with the url left out
RequestOfNull(u) ==
    [ appExternalID       |-> AppExternalID,
      appURL              |-> Absent,
      envID               |-> EnvID,
      additionalTypenames |-> {"Workflow"} ]

\* the request without the cache-busting context
RequestOfNoBust(u) ==
    [ appExternalID       |-> AppExternalID,
      appURL              |-> u,
      envID               |-> EnvID,
      additionalTypenames |-> {} ]

\* lines 66-79: the variables and the context resyncApp is called with
RequestOf(u) ==
    [ appExternalID       |-> AppExternalID,
      appURL              |-> u,
      envID               |-> EnvID,
      additionalTypenames |-> {"Workflow"} ]

\* onSync clearing the stored failure when it starts
OnSyncClearing ==
    /\ isOpen
    /\ ~view.confirmDisabled
    /\ dispatched < MaxRequests
    /\ isSyncing' = TRUE
    /\ failure' = Undefined
    /\ inflight' = Append(inflight, RequestOf(view.url))
    /\ dispatched' = dispatched + 1
    /\ UNCHANGED <<url, appMethod, isOpen, overrideValue, isURLOverridden,
                   toasts, closeSignals, inertClicks, rejections, edited>>
    /\ Rerender

\* click on the confirm button while it is enabled: onSync up to the await
OnSync ==
    /\ isOpen
    /\ ~view.confirmDisabled
    /\ dispatched < MaxRequests
    /\ isSyncing' = TRUE
    /\ inflight' = Append(inflight, RequestOf(view.url))
    /\ dispatched' = dispatched + 1
    /\ UNCHANGED <<url, appMethod, isOpen, overrideValue, isURLOverridden,
                   failure, toasts, closeSignals, inertClicks,
                   rejections, edited>>
    /\ Rerender

\* click on the confirm button while it is disabled: no handler runs
ClickDisabledSync ==
    /\ isOpen
    /\ view.confirmDisabled
    /\ inertClicks < MaxInert
    /\ inertClicks' = inertClicks + 1
    /\ UNCHANGED <<url, appMethod, isOpen, overrideValue, isURLOverridden,
                   failure, isSyncing, inflight, dispatched, toasts,
                   closeSignals, rejections, edited>>
    /\ Rerender

\* a catch block that swallows the error
CaughtSilently ==
    [failure |-> Undefined,
     toast |-> FALSE, close |-> FALSE,
     throws |-> FALSE]

\* a catch block that keeps the thrown error's message
CaughtWithMessage ==
    [failure |-> CodedError("unknown", Absent, "No API response data"),
     toast |-> FALSE, close |-> FALSE,
     throws |-> FALSE]

\* a catch block that stores the failure and throws the error on
CaughtRethrown ==
    [failure |-> CodedError("unknown", Absent, Absent),
     toast |-> FALSE, close |-> FALSE,
     throws |-> TRUE]

\* lines 96-98: the catch block
Caught ==
    [failure |-> CodedError("unknown", Absent, Absent),
     toast |-> FALSE, close |-> FALSE,
     throws |-> FALSE]

\* the continuation keeping only the code of the application error
OutcomeCodeOnly(res) ==
    IF res.rejects THEN Caught
    ELSE IF res.error THEN Caught
    ELSE IF ~res.data.present THEN Caught
    ELSE IF res.data.error # Undefined
         THEN [failure |-> CodedError(res.data.error.code, Absent, Absent),
               toast |-> FALSE, close |-> FALSE,
               throws |-> FALSE]
         ELSE [failure |-> Undefined, toast |-> TRUE, close |-> TRUE,
               throws |-> FALSE]

\* the continuation with the toast raised before the application error is read
OutcomeToastEarly(res) ==
    IF res.rejects THEN Caught
    ELSE IF res.error THEN Caught
    ELSE IF ~res.data.present THEN Caught
    ELSE IF res.data.error # Undefined
         THEN [failure |-> res.data.error, toast |-> TRUE, close |-> FALSE,
               throws |-> FALSE]
         ELSE [failure |-> Undefined, toast |-> TRUE, close |-> TRUE,
               throws |-> FALSE]

\* lines 80-98: what the continuation of onSync does with the result
Outcome(res) ==
    IF res.rejects THEN Caught
    ELSE IF res.error THEN Caught
    ELSE IF ~res.data.present THEN Caught
    ELSE IF res.data.error # Undefined
         THEN [failure |-> res.data.error, toast |-> FALSE, close |-> FALSE,
               throws |-> FALSE]
         ELSE [failure |-> Undefined, toast |-> TRUE, close |-> TRUE,
               throws |-> FALSE]

\* setIsSyncing(false) on the success path only
FinallyOnSuccessOnly(out) == ~out.close

\* line 100: the finally block sets isSyncing, whatever the outcome
Finally(out) == FALSE

RemoveAt(s, i) == [j \in 1..(Len(s) - 1) |-> IF j < i THEN s[j] ELSE s[j + 1]]

\* a continuation that issues the request again after a failure
SettleWithRetry(i, res) ==
    /\ i \in DOMAIN inflight
    /\ LET out == Outcome(res) IN
       /\ failure' = out.failure
       /\ toasts' = IF out.toast THEN toasts + 1 ELSE toasts
       /\ closeSignals' = IF out.close THEN closeSignals + 1 ELSE closeSignals
       /\ isOpen' = IF out.close THEN FALSE ELSE isOpen
       /\ rejections' = IF out.throws THEN rejections + 1 ELSE rejections
       /\ IF out.close
          THEN /\ isSyncing' = FALSE
               /\ inflight' = RemoveAt(inflight, i)
               /\ dispatched' = dispatched
          ELSE /\ isSyncing' = TRUE
               /\ inflight' = Append(RemoveAt(inflight, i), inflight[i])
               /\ dispatched' = dispatched + 1
    /\ UNCHANGED <<url, appMethod, overrideValue, isURLOverridden,
                   inertClicks, edited>>
    /\ Rerender

\* the await of request i ends with res: lines 80-101 in one render batch
Settle(i, res) ==
    /\ i \in DOMAIN inflight
    /\ LET out == Outcome(res) IN
       /\ failure' = out.failure
       /\ toasts' = IF out.toast THEN toasts + 1 ELSE toasts
       /\ closeSignals' = IF out.close THEN closeSignals + 1 ELSE closeSignals
       /\ isOpen' = IF out.close THEN FALSE ELSE isOpen
       /\ isSyncing' = Finally(out)
       /\ rejections' = IF out.throws THEN rejections + 1 ELSE rejections
    /\ inflight' = RemoveAt(inflight, i)
    /\ UNCHANGED <<url, appMethod, overrideValue, isURLOverridden,
                   dispatched, inertClicks, edited>>
    /\ Rerender

\* ---------------------------------------------------------------- inputs
\* lines 151-153: Input onChange (a readOnly input takes no edits)
ChangeInput(text) ==
    /\ isOpen
    /\ ~view.readOnly
    /\ text # overrideValue
    /\ overrideValue' = text
    /\ edited' = TRUE
    /\ UNCHANGED <<url, appMethod, isOpen, isURLOverridden, failure,
                   isSyncing, inflight, dispatched, toasts, closeSignals,
                   inertClicks, rejections>>
    /\ Rerender

\* a switch that also drops the stored failure
ToggleOverrideClearing ==
    /\ isOpen
    /\ ~view.switchDisabled
    /\ isURLOverridden' = ~isURLOverridden
    /\ failure' = Undefined
    /\ UNCHANGED <<url, appMethod, isOpen, overrideValue,
                   isSyncing, inflight, dispatched, toasts, closeSignals,
                   inertClicks, rejections, edited>>
    /\ Rerender

\* lines 163-165: Switch onCheckedChange
ToggleOverride ==
    /\ isOpen
    /\ ~view.switchDisabled
    /\ isURLOverridden' = ~isURLOverridden
    /\ UNCHANGED <<url, appMethod, isOpen, overrideValue, failure,
                   isSyncing, inflight, dispatched, toasts, closeSignals,
                   inertClicks,
                   rejections, edited>>
    /\ Rerender

\* ---------------------------------------------------------------- host
\* onClose as the buttons and the modal shell call it
UserClose ==
    /\ closeSignals' = closeSignals + 1
    /\ isOpen' = FALSE
    /\ UNCHANGED <<url, appMethod, overrideValue, isURLOverridden, failure,
                   isSyncing, inflight, dispatched, toasts, inertClicks,
                   rejections, edited>>
    /\ Rerender

UserClosesLeft == closeSignals - toasts < MaxCloses

\* lines 191-197: the cancel button
ClickCancel ==
    /\ isOpen
    /\ ~view.cancelDisabled
    /\ UserClosesLeft
    /\ UserClose

\* line 107: the modal shell's own close (Escape, click outside)
ModalClose ==
    /\ isOpen
    /\ UserClosesLeft
    /\ UserClose

\* the host shows the modal again; the component stays mounted
HostOpen ==
    /\ ~isOpen
    /\ isOpen' = TRUE
    /\ UNCHANGED <<url, appMethod, overrideValue, isURLOverridden, failure,
                   isSyncing, inflight, dispatched, toasts, closeSignals,
                   inertClicks,
                   rejections, edited>>
    /\ Rerender

\* the host passes another url prop (the application was resynced elsewhere)
HostSetUrl(u) ==
    /\ u # url
    /\ url' = u
    /\ UNCHANGED <<appMethod, isOpen, overrideValue, isURLOverridden, failure,
                   isSyncing, inflight, dispatched, toasts, closeSignals,
                   inertClicks,
                   rejections, edited>>
    /\ Rerender

\* ---------------------------------------------------------------- spec
Next ==
    \/ OnSync
    \/ ClickDisabledSync
    \/ \E i \in DOMAIN inflight : \E res \in Responses : Settle(i, res)
    \/ \E text \in Texts : ChangeInput(text)
    \/ ToggleOverride
    \/ ClickCancel
    \/ ModalClose
    \/ HostOpen
    \/ \E u \in URLs : HostSetUrl(u)

Spec == Init /\ [][Next]_vars

\* the remote call eventually settles
FairSpec ==
    Spec /\ WF_vars(\E i \in DOMAIN inflight : \E res \in Responses : Settle(i, res))

\* ---------------------------------------------------------------- claims
\* a step in which the await of some request ends with res
SettleStep(res) == \E i \in DOMAIN inflight : Settle(i, res)

\* a step in which resyncApp is called
DispatchStep == dispatched' = dispatched + 1

\* the request the last call of resyncApp was given
LastRequest(q) == q[Len(q)]

\* the response classes in the claims' own terms
IsSuccessPayload(res) ==
    ~res.rejects /\ ~res.error /\ res.data.present /\ res.data.error = Undefined
IsTransportFailure(res) == res.rejects \/ res.error \/ ~res.data.present
CarriesAppError(res) == res.data.present /\ res.data.error # Undefined

\* C1: at most one request is outstanding in every reachable state, and no
\* step taken while isSyncing is true dispatches a request or adds one to
\* the outstanding ones (a confirm while syncing is inert and not buffered:
\* the settle step that follows dispatches nothing either).
C1_SingleInFlight ==
    /\ [](Len(inflight) <= 1)
    /\ [][isSyncing => /\ dispatched' = dispatched
                       /\ Len(inflight') <= Len(inflight)]_vars

\* a confirm click met the disabled button during the only resync so far,
\* which is still the one request outstanding
C1_Witness ==
    /\ appMethod = "serve"
    /\ dispatched = 1
    /\ isSyncing
    /\ Len(inflight) = 1
    /\ inertClicks = 1

\* C2: whatever the response and whatever failure held before, the step in
\* which an invocation settles either leaves failure set or calls onClose
\* once, never both and never neither.
C2_ExclusiveOutcome ==
    [][\A res \in Responses : SettleStep(res) =>
          /\ closeSignals' \in {closeSignals, closeSignals + 1}
          /\ (failure' # Undefined) # (closeSignals' = closeSignals + 1)]_vars

\* two invocations have settled: the first left a failure, the second
\* succeeded, cleared it and closed the modal
C2_Witness ==
    /\ dispatched = 2
    /\ inflight = <<>>
    /\ toasts = 1
    /\ failure = Undefined
    /\ closeSignals = 1
    /\ ~isOpen

\* C3 as stated: the effective URL equals the override buffer if and only
\* if overriding is enabled, and otherwise equals the original URL.
C3_Original ==
    /\ (view.url = overrideValue) <=> isURLOverridden
    /\ ~isURLOverridden => view.url = url

\* C3 amended: the effective URL equals the override buffer whenever
\* overriding is enabled and the original URL whenever it is disabled (the
\* two may coincide while overriding is disabled).
C3_EffectiveURL ==
    /\ isURLOverridden => view.url = overrideValue
    /\ ~isURLOverridden => view.url = url

\* overriding was enabled, the buffer edited, and overriding disabled again
C3_Witness ==
    /\ ~isURLOverridden
    /\ overrideValue = "https://b.com/x"
    /\ view.url = url

\* C4: the failure detail is rendered only if a failure is stored and
\* isSyncing is false; it is never rendered while isSyncing is true.
C4_FailureSpinnerExclusion ==
    /\ view.failureShown => (failure # Undefined /\ ~isSyncing)
    /\ ~(isSyncing /\ view.failureShown)

\* a retry is in flight after an earlier failure
C4_Witness ==
    /\ isSyncing
    /\ dispatched = 2
    /\ failure # Undefined
    /\ ~view.failureShown

\* C5: a settle step with a success payload leaves failure undefined, calls
\* toast.success once and onClose once and changes neither the effective
\* URL, the override flag nor the buffer; a settle step with any other
\* response calls toast.success not at all.
C5_SuccessPath ==
    [][\A res \in Responses : SettleStep(res) =>
          IF IsSuccessPayload(res)
          THEN /\ failure' = Undefined
               /\ toasts' = toasts + 1
               /\ closeSignals' = closeSignals + 1
               /\ view'.url = view.url
               /\ isURLOverridden' = isURLOverridden
               /\ overrideValue' = overrideValue
          ELSE toasts' = toasts]_vars

\* a resync with an edited override succeeded
C5_Witness ==
    /\ toasts = 1
    /\ dispatched = 1
    /\ inflight = <<>>
    /\ failure = Undefined
    /\ isURLOverridden
    /\ view.url = "https://b.com/x"

\* C6: a settle step whose remote call threw, returned an error or returned
\* neither error nor data stores exactly {code: "unknown"}, calls onClose
\* not at all and leaves isOpen as it was.
C6_TransportFailure ==
    [][\A res \in Responses : (SettleStep(res) /\ IsTransportFailure(res)) =>
          /\ failure' = CodedError("unknown", Absent, Absent)
          /\ closeSignals' = closeSignals
          /\ isOpen' = isOpen]_vars

\* the first resync settled as a transport failure and the modal is open
C6_Witness ==
    /\ dispatched = 1
    /\ inflight = <<>>
    /\ failure = CodedError("unknown", Absent, Absent)
    /\ closeSignals = 0
    /\ isOpen

\* what C7 says of a settle step
AppErrorStored(res) ==
    /\ failure' = res.data.error
    /\ closeSignals' = closeSignals
    /\ toasts' = toasts
    /\ ~isSyncing'
    /\ isOpen' = isOpen

\* C7 as stated: whenever the response body carries an application error,
\* that error is stored verbatim, nothing is closed or notified and
\* isSyncing ends false.
C7_Original ==
    [][\A res \in Responses : (SettleStep(res) /\ CarriesAppError(res)) =>
          AppErrorStored(res)]_vars

\* C7 amended: the same, for a response that resolved without a
\* transport-level error (res.error is read before the body).
C7_AppErrorVerbatim ==
    [][\A res \in Responses :
          (SettleStep(res) /\ CarriesAppError(res)
              /\ ~res.rejects /\ ~res.error) =>
          AppErrorStored(res)]_vars

\* the first resync was rejected by the server with data and message
C7_Witness ==
    /\ dispatched = 1
    /\ inflight = <<>>
    /\ failure = CodedError("unknown", "details", "sdk unreachable")
    /\ ~isSyncing
    /\ isOpen
    /\ toasts = 0
    /\ closeSignals = 0

\* C8: isSyncing is true from the call of resyncApp on, for as long as the
\* request is outstanding; every settle step ends with it false; and, the
\* remote call settling eventually, isSyncing true leads to isSyncing false.
C8_FlagRelease ==
    /\ [](inflight # <<>> => isSyncing)
    /\ [][DispatchStep => isSyncing']_vars
    /\ [][\A res \in Responses : SettleStep(res) => ~isSyncing']_vars
    /\ isSyncing ~> ~isSyncing

\* both resyncs failed and the flag is released
C8_Witness ==
    /\ dispatched = 2
    /\ inflight = <<>>
    /\ toasts = 0
    /\ failure # Undefined
    /\ ~isSyncing

\* C9: with the connect method and override disabled the confirm button is
\* disabled, whatever isSyncing and failure are, and no step from such a
\* state calls resyncApp.
C9_MigrationGating ==
    /\ []((isConnect(appMethod) /\ ~isURLOverridden) => view.confirmDisabled)
    /\ [][(isConnect(appMethod) /\ ~isURLOverridden) =>
             dispatched' = dispatched]_vars

\* migration mode, a failed attempt behind, override switched off again and
\* a click on the confirm button that did nothing
C9_Witness ==
    /\ isConnect(appMethod)
    /\ ~isURLOverridden
    /\ ~isSyncing
    /\ failure # Undefined
    /\ inertClicks = 1
    /\ view.confirmDisabled

\* C10 as stated: a request dispatched while override is disabled carries
\* appURL = null.
C10_Original ==
    [][(DispatchStep /\ ~isURLOverridden) =>
          LastRequest(inflight').appURL = Absent]_vars

\* C10 amended: a request dispatched while override is disabled carries the
\* original URL, one dispatched while it is enabled carries the override
\* buffer; appURL is never null.
C10_RequestURL ==
    [][DispatchStep =>
          /\ LastRequest(inflight').appURL # Absent
          /\ LastRequest(inflight').appURL =
                IF isURLOverridden THEN overrideValue ELSE url]_vars

\* a request dispatched with override disabled is outstanding
C10_Witness ==
    /\ Len(inflight) = 1
    /\ ~isURLOverridden
    /\ inflight[1].appURL = url
    /\ inflight[1].appURL # Absent

\* the state the useState calls of lines 50-53 give for the current url
Fresh ==
    /\ ~isURLOverridden
    /\ ~isSyncing
    /\ failure = Undefined
    /\ overrideValue = url

\* C11: whenever the modal is opened (isOpen turns true), the controller
\* state is fresh: override off, not syncing, no failure, and the buffer
\* equal to the application's current URL.
C11_FreshOnOpen == [][(~isOpen /\ isOpen') => Fresh']_vars

\* a step that is the continuation of some request
AnySettleStep == \E res \in Responses : SettleStep(res)

\* C12: resyncApp is called only by an accepted click on the confirm button,
\* once per click; a settle step, failed or not, calls it not at all and
\* only takes its own request off the outstanding ones.
C12_NoAutomaticRetry ==
    /\ [][(dispatched' # dispatched \/ Len(inflight') > Len(inflight)) =>
             OnSync]_vars
    /\ [][OnSync => /\ dispatched' = dispatched + 1
                    /\ Len(inflight') = Len(inflight) + 1]_vars
    /\ [][AnySettleStep => /\ dispatched' = dispatched
                           /\ Len(inflight') = Len(inflight) - 1]_vars

\* a resync failed, the modal was closed and opened again, and the one
\* request of the first click is still the only one ever dispatched
C12_Witness ==
    /\ dispatched = 1
    /\ inflight = <<>>
    /\ failure # Undefined
    /\ closeSignals = 1
    /\ isOpen
    /\ ~isSyncing

\* C13: no promise returned by onSync rejects, and every settle step whose
\* response is not a success payload leaves a failure stored.
C13_FailuresNeverEscape ==
    /\ [](rejections = 0)
    /\ [][\A res \in Responses :
             (SettleStep(res) /\ ~IsSuccessPayload(res)) =>
             (failure' # Undefined /\ rejections' = rejections)]_vars

\* the remote call failed while the modal was closed by its shell: the
\* failure is stored and nothing was thrown on
C13_Witness ==
    /\ dispatched = 1
    /\ inflight = <<>>
    /\ failure = CodedError("unknown", Absent, Absent)
    /\ rejections = 0
    /\ ~isOpen

\* C14: every call of resyncApp asks for the Workflow typename to be
\* invalidated, so every outstanding request carries it.
C14_CacheInvalidation ==
    /\ [](\A i \in DOMAIN inflight :
            "Workflow" \in inflight[i].additionalTypenames)
    /\ [][DispatchStep =>
            "Workflow" \in LastRequest(inflight').additionalTypenames]_vars

\* the second request, after a failed first one, is outstanding with the
\* invalidation
C14_Witness ==
    /\ dispatched = 2
    /\ Len(inflight) = 1
    /\ failure # Undefined
    /\ inflight[1].additionalTypenames = {"Workflow"}

\* C15: a settle step with a success payload leaves failure undefined;
\* failure goes from set to undefined only in such a step; and every step
\* that is not a settle step (starting a resync, toggling, editing, closing,
\* opening) leaves failure unchanged.
C15_ClearedOnlyBySuccess ==
    /\ [][\A res \in Responses :
             (SettleStep(res) /\ IsSuccessPayload(res)) =>
             failure' = Undefined]_vars
    /\ [][(failure # Undefined /\ failure' = Undefined) =>
             \E res \in Responses :
                SettleStep(res) /\ IsSuccessPayload(res)]_vars
    /\ [][~AnySettleStep => failure' = failure]_vars

\* after a failure the user switched override, edited the buffer, closed the
\* modal and started nothing: the failure is still stored
C15_Witness ==
    /\ dispatched = 1
    /\ inflight = <<>>
    /\ failure # Undefined
    /\ isURLOverridden
    /\ overrideValue = ""
    /\ ~isOpen

\* C16: a step of the switch leaves the buffer unchanged; switching override
\* on shows the buffer as it was left, switching it off shows the original
\* URL; and switching it on before the input has taken any edit shows the
\* original URL.
C16_TextRetention ==
    /\ [][isURLOverridden' # isURLOverridden =>
             /\ overrideValue' = overrideValue
             /\ view'.url = IF isURLOverridden' THEN overrideValue ELSE url]_vars
    /\ [][(~isURLOverridden /\ isURLOverridden' /\ ~edited) =>
             view'.url = url]_vars

\* C17: a step that changes the override flag or the buffer changes, apart
\* from those two and the render, nothing: no request, no change of
\* isSyncing or failure, no toast, no close signal; and with override off
\* the render yields the same effective URL whatever the buffer holds.
C17_InputResolutionFrame ==
    /\ [][(isURLOverridden' # isURLOverridden
             \/ overrideValue' # overrideValue) =>
            /\ UNCHANGED <<url, appMethod, isOpen, failure, isSyncing,
                           inflight, dispatched, toasts, closeSignals,
                           rejections>>
            /\ view'.failureShown = view.failureShown]_vars
    /\ [](~isURLOverridden =>
            \A text \in Texts :
               Render(url, appMethod, text, isURLOverridden, failure,
                      isSyncing).url = view.url)

\* after a failure the user enabled override, emptied the buffer and
\* disabled override again: the failure, the counters and the flag stand
C17_Witness ==
    /\ dispatched = 1
    /\ inflight = <<>>
    /\ failure # Undefined
    /\ view.failureShown
    /\ ~isURLOverridden
    /\ overrideValue = ""
    /\ toasts = 0
    /\ closeSignals = 0
    /\ isOpen

\* C18: a settle step taken while the modal is closed changes nothing that
\* can be observed: no toast, no further close signal, and the same render
\* for the closed modal and for its next opening.
C18_CloseDuringFlight ==
    [][(AnySettleStep /\ ~isOpen) =>
          /\ toasts' = toasts
          /\ closeSignals' = closeSignals
          /\ view' = view]_vars

\* C19: the request of a dispatch step carries the effective URL of the
\* render the click was made on; no step changes the override flag while
\* isSyncing is true; and an edit of the buffer leaves the outstanding
\* requests as they are while the rendered URL follows the buffer.
C19_RequestSnapshot ==
    /\ [][DispatchStep => LastRequest(inflight').appURL = view.url]_vars
    /\ [][isSyncing => isURLOverridden' = isURLOverridden]_vars
    /\ [][overrideValue' # overrideValue =>
             /\ inflight' = inflight
             /\ view'.url = overrideValue']_vars

\* the buffer was edited while the request was outstanding: the input shows
\* the new text, the request the old one
C19_Witness ==
    /\ isSyncing
    /\ Len(inflight) = 1
    /\ isURLOverridden
    /\ view.url = "https://b.com/x"
    /\ inflight[1].appURL # view.url

\* the failure the claims assign to a response
ExpectedFailure(res) ==
    IF IsSuccessPayload(res) THEN Undefined
    ELSE IF IsTransportFailure(res) THEN CodedError("unknown", Absent, Absent)
    ELSE res.data.error

\* C20: failure is undefined until a resync has settled; every settle step
\* leaves the failure of its own response (undefined after a success, the
\* application error or {code: "unknown"} after a failure), whatever was
\* stored before; and no other step changes it, so failure is always that
\* of the most recently settled resync.
C20_MostRecentAttempt ==
    /\ [](dispatched = Len(inflight) => failure = Undefined)
    /\ [][\A res \in Responses :
             SettleStep(res) => failure' = ExpectedFailure(res)]_vars
    /\ [][~AnySettleStep => failure' = failure]_vars

\* the first resync succeeded, the second was rejected by the server: the
\* rejection is what is stored and shown
C20_Witness ==
    /\ dispatched = 2
    /\ inflight = <<>>
    /\ toasts = 1
    /\ failure = CodedError("invalid_url", Absent, "bad host")
    /\ view.failureShown

====
